---- MODULE Spec2Model ----
(***************************************************************************)
(* ChatANON front end: the detection/text reconciliation logic of          *)
(* ChatInterface, TextSelectionReplacer, InteractiveAnonymizedText and the  *)
(* useChatMessages hook.                                                    *)
(*                                                                          *)
(* A JavaScript string is a sequence of one-character strings.  Offsets     *)
(* into a string are 0-based as in the source and -1 means "not found";     *)
(* arrays are TLA+ sequences, so array index k is sequence index k+1.       *)
(* A detection's confidence is kept as the integer confidence*100.          *)
(***************************************************************************)
EXTENDS Integers, Sequences, FiniteSets, TLC

(***************************************************************************)
(* Bounds of the model.                                                    *)
(***************************************************************************)
MaxDetections == 4
MaxSubmits == 2
MaxSteps == 6
MaxChunks == 2
MaxStreamSteps == 5
MaxActivationSteps == 7
MaxTaggingSteps == 5

(***************************************************************************)
(* Characters.                                                             *)
(***************************************************************************)
UpperLetters ==
  {"A","B","C","D","E","F","G","H","I","J","K","L","M",
   "N","O","P","Q","R","S","T","U","V","W","X","Y","Z"}

DigitChars == <<"0","1","2","3","4","5","6","7","8","9">>

Digits == {DigitChars[k] : k \in 1..10}

\* the character class [A-Z_0-9] of the placeholder grammar
PlaceholderClass == UpperLetters \cup Digits \cup {"_"}

\* case folding of the 'i' regular expression flag, on the letters the
\* model's texts use
ToLower(c) ==
  CASE c = "A" -> "a" [] c = "B" -> "b" [] c = "D" -> "d" [] c = "I" -> "i"
    [] c = "N" -> "n" [] c = "S" -> "s" [] c = "X" -> "x"
    [] OTHER -> c

\* String.prototype.substring(from, to), 0-based, to exclusive
Substring(s, from, to) == SubSeq(s, from + 1, to)

\* s.startsWith(p, k): p occurs in s at 0-based offset k
MatchAt(s, p, k) ==
  /\ k >= 0
  /\ k + Len(p) <= Len(s)
  /\ \A j \in 1..Len(p) : s[k + j] = p[j]

\* the same comparison under the 'i' flag
MatchAtCI(s, p, k) ==
  /\ k >= 0
  /\ k + Len(p) <= Len(s)
  /\ \A j \in 1..Len(p) : ToLower(s[k + j]) = ToLower(p[j])

StartsWith(s, p) == MatchAt(s, p, 0)

\* String.prototype.indexOf(p, from): first offset >= from where p occurs,
\* -1 when there is none
IndexOf(s, p, from) ==
  LET hits == {k \in from..(Len(s) - Len(p)) : MatchAt(s, p, k)}
  IN  IF hits = {} THEN -1 ELSE CHOOSE k \in hits : \A h \in hits : k <= h

\* String.prototype.replace(pattern: string, r): the first occurrence only
ReplaceFirst(s, p, r) ==
  LET k == IndexOf(s, p, 0)
  IN  IF k = -1 THEN s
      ELSE Substring(s, 0, k) \o r \o Substring(s, k + Len(p), Len(s))

\* String.prototype.replace(new RegExp(escaped p, 'gi'), r): every
\* non-overlapping case-insensitive occurrence, scanning from offset k
RECURSIVE ReplaceAllCIFrom(_, _, _, _)
ReplaceAllCIFrom(s, p, r, k) ==
  IF k >= Len(s) THEN <<>>
  ELSE IF MatchAtCI(s, p, k)
       THEN r \o ReplaceAllCIFrom(s, p, r, k + Len(p))
       ELSE <<s[k + 1]>> \o ReplaceAllCIFrom(s, p, r, k + 1)

ReplaceAllCI(s, p, r) == ReplaceAllCIFrom(s, p, r, 0)

\* Number.prototype.toString() in decimal
RECURSIVE NumToString(_)
NumToString(n) ==
  IF n < 10 THEN <<DigitChars[n + 1]>>
  ELSE NumToString(n \div 10) \o <<DigitChars[(n % 10) + 1]>>

DigitVal(c) == CHOOSE d \in 0..9 : DigitChars[d + 1] = c

\* parseInt of a string of decimal digits
RECURSIVE ParseInt(_)
ParseInt(ds) ==
  IF Len(ds) = 0 THEN 0
  ELSE 10 * ParseInt(SubSeq(ds, 1, Len(ds) - 1)) + DigitVal(ds[Len(ds)])

\* end offset (exclusive) of the longest run of characters of class cls
\* that starts at offset k
RECURSIVE RunEnd(_, _, _)
RunEnd(s, cls, k) ==
  IF k < Len(s) /\ s[k + 1] \in cls THEN RunEnd(s, cls, k + 1) ELSE k

(***************************************************************************)
(* TextSelectionReplacer: Manual Tagging and Replace-All.                  *)
(***************************************************************************)

\* getPlaceholderType: entity type -> placeholder prefix
getPlaceholderType(entityType) ==
  CASE entityType = "name"        -> <<"N","A","M","E">>
    [] entityType = "email"       -> <<"E","M","A","I","L">>
    [] entityType = "phone"       -> <<"P","H","O","N","E">>
    [] entityType = "address"     -> <<"A","D","D","R","E","S","S">>
    [] entityType = "ssn"         -> <<"S","S","N">>
    [] entityType = "org"         -> <<"O","R","G">>
    [] entityType = "birth-date"  -> <<"B","I","R","T","H","_","D","A","T","E">>
    [] entityType = "id"          -> <<"I","D">>
    [] entityType = "proprietary" -> <<"P","R","O","P","R","I","E","T","A","R","Y">>
    [] entityType = "location"    -> <<"L","O","C","A","T","I","O","N">>
    [] entityType = "product"     -> <<"P","R","O","D","U","C","T">>
    [] entityType = "service"     -> <<"S","E","R","V","I","C","E">>
    [] entityType = "project"     -> <<"P","R","O","J","E","C","T">>
    [] OTHER                      -> <<"U","N","K","N","O","W","N">>

\* `[${placeholderType}_`
PlaceholderPrefix(placeholderType) == <<"[">> \o placeholderType \o <<"_">>

\* the set left empty: the while loop over placeholderRegex.exec not run
existingNumbersUnscanned(anonymizedText, placeholderType) == {}

\* the numbers n of the tokens [P_n] of the text: the matches of
\* new RegExp(`\\[${placeholderType}_(\\d+)\\]`, 'g'), each through parseInt
existingNumbers(anonymizedText, placeholderType) ==
  LET pre == PlaceholderPrefix(placeholderType)
      ds(k) == k + Len(pre)
      de(k) == RunEnd(anonymizedText, Digits, ds(k))
      starts == {k \in 0..(Len(anonymizedText) - 1) :
                   /\ MatchAt(anonymizedText, pre, k)
                   /\ de(k) > ds(k)
                   /\ de(k) < Len(anonymizedText)
                   /\ anonymizedText[de(k) + 1] = "]"}
  IN  {ParseInt(Substring(anonymizedText, ds(k), de(k))) : k \in starts}

\* while (existingNumbers.has(placeholderNumber)) placeholderNumber++
RECURSIVE NextAvailable(_, _)
NextAvailable(numbers, placeholderNumber) ==
  IF placeholderNumber \in numbers
  THEN NextAvailable(numbers, placeholderNumber + 1)
  ELSE placeholderNumber

\* the same search with detection.replacement === selection.text in place
\* of detection.original === selection.text
existingIndexByReplacement(detections, text, placeholderType) ==
  LET hits == {k \in 0..(Len(detections) - 1) :
                 /\ detections[k + 1].replacement = text
                 /\ StartsWith(detections[k + 1].replacement,
                               PlaceholderPrefix(placeholderType))}
  IN  IF hits = {} THEN -1 ELSE CHOOSE k \in hits : \A h \in hits : k <= h

\* array index of the first detection with original === selection.text whose
\* replacement starts with `[${placeholderType}_`, -1 when there is none
existingIndex(detections, text, placeholderType) ==
  LET hits == {k \in 0..(Len(detections) - 1) :
                 /\ detections[k + 1].original = text
                 /\ StartsWith(detections[k + 1].replacement,
                               PlaceholderPrefix(placeholderType))}
  IN  IF hits = {} THEN -1 ELSE CHOOSE k \in hits : \A h \in hits : k <= h

\* the placeholder both handlers settle on: the one of an existing detection
\* of this text and type, else `[${placeholderType}_${placeholderNumber}]`
existingPlaceholder(anonymizedText, detections, text, entityType) ==
  LET placeholderType == getPlaceholderType(entityType)
      found == existingIndex(detections, text, placeholderType)
  IN  IF found # -1 THEN detections[found + 1].replacement
      ELSE PlaceholderPrefix(placeholderType)
             \o NumToString(NextAvailable(
                  existingNumbers(anonymizedText, placeholderType), 1))
             \o <<"]">>

\* the loop that finds where to insert: i + 1 for the last detection of the
\* leading run whose replacement occurs in newText before position
RECURSIVE insertIndexFrom(_, _, _, _)
insertIndexFrom(newText, newDetections, position, k) ==
  IF k >= Len(newDetections) THEN k
  ELSE LET detectionPos == IndexOf(newText, newDetections[k + 1].replacement, 0)
       IN  IF detectionPos # -1 /\ detectionPos < position
           THEN insertIndexFrom(newText, newDetections, position, k + 1)
           ELSE k

insertIndex(newText, newDetections, position) ==
  insertIndexFrom(newText, newDetections, position, 0)

\* the detection both handlers create
ManualDetection(entityType, text, placeholder, idx) ==
  [type |-> entityType, original |-> text, replacement |-> placeholder,
   confidence |-> 100, i |-> idx]

\* newDetections.splice(insertIndex, 0, d) without the renumbering loop
SpliceOnly(newDetections, at, d) ==
  SubSeq(newDetections, 1, at) \o <<d>>
    \o SubSeq(newDetections, at + 1, Len(newDetections))

\* newDetections.splice(insertIndex, 0, d), then
\* for (i = insertIndex + 1; i < length; i++) newDetections[i].i = i
SpliceAndRenumber(newDetections, at, d) ==
  LET spliced == SubSeq(newDetections, 1, at) \o <<d>>
                   \o SubSeq(newDetections, at + 1, Len(newDetections))
  IN  [j \in 1..Len(spliced) |->
         IF j - 1 >= at + 1 THEN [spliced[j] EXCEPT !.i = j - 1]
         ELSE spliced[j]]

\* TextSelectionReplacer.handleReplace: the (newText, newDetections) it hands
\* to onReplace
handleReplaceResult(anonymizedText, detections, text, entityType) ==
  LET placeholderType == getPlaceholderType(entityType)
      placeholder == existingPlaceholder(anonymizedText, detections, text, entityType)
      newText == ReplaceFirst(anonymizedText, text, placeholder)
      found == existingIndex(detections, text, placeholderType)
      position == IndexOf(newText, placeholder, 0)
      at == insertIndex(newText, detections, position)
  IN  [content |-> newText,
       detections |->
         IF found = -1
         THEN SpliceAndRenumber(detections, at,
                ManualDetection(entityType, text, placeholder, at))
         ELSE detections]

\* the offsets of existingPlaceholder in newText, by repeated indexOf
RECURSIVE replacementPositions(_, _, _)
replacementPositions(newText, placeholder, searchFrom) ==
  LET pos == IndexOf(newText, placeholder, searchFrom)
  IN  IF pos = -1 THEN <<>>
      ELSE <<pos>> \o replacementPositions(newText, placeholder, pos + Len(placeholder))

\* newDetections.some(d => d.original === selection.text &&
\*   d.replacement === existingPlaceholder &&
\*   newText.indexOf(d.replacement) === position)
exists(newText, newDetections, text, placeholder, position) ==
  \E k \in 1..Len(newDetections) :
    /\ newDetections[k].original = text
    /\ newDetections[k].replacement = placeholder
    /\ IndexOf(newText, newDetections[k].replacement, 0) = position

\* replacementPositions.forEach(position => ...), from the k-th position on
RECURSIVE forEachPosition(_, _, _, _, _, _, _)
forEachPosition(newText, newDetections, positions, k, text, entityType, placeholder) ==
  IF k > Len(positions) THEN newDetections
  ELSE LET position == positions[k]
           at == insertIndex(newText, newDetections, position)
           next == IF exists(newText, newDetections, text, placeholder, position)
                   THEN newDetections
                   ELSE SpliceAndRenumber(newDetections, at,
                          ManualDetection(entityType, text, placeholder, at))
       IN  forEachPosition(newText, next, positions, k + 1, text, entityType, placeholder)

\* TextSelectionReplacer.handleReplaceAll: the (newText, newDetections) it
\* hands to onReplaceAll
handleReplaceAllResult(anonymizedText, detections, text, entityType) ==
  LET placeholder == existingPlaceholder(anonymizedText, detections, text, entityType)
      newText == ReplaceAllCI(anonymizedText, text, placeholder)
      positions == replacementPositions(newText, placeholder, 0)
  IN  [content |-> newText,
       detections |-> forEachPosition(newText, detections, positions, 1,
                                      text, entityType, placeholder)]

(***************************************************************************)
(* InteractiveAnonymizedText: Position Resolver and rendering.             *)
(***************************************************************************)

\* detection?.i of a token without detection
Undefined == -1

NoDetection ==
  [type |-> "", original |-> <<>>, replacement |-> <<>>, confidence |-> 0,
   i |-> Undefined]

\* the successive matches of /\[([A-Z_0-9]+)\]/g from offset k on, each with
\* match.index and match[0]
RECURSIVE placeholderMatches(_, _)
placeholderMatches(s, k) ==
  IF k >= Len(s) THEN <<>>
  ELSE LET e == RunEnd(s, PlaceholderClass, k + 1)
       IN  IF s[k + 1] = "[" /\ e > k + 1 /\ e < Len(s) /\ s[e + 1] = "]"
           THEN <<[index |-> k, text |-> Substring(s, k, e + 1)]>>
                  \o placeholderMatches(s, e + 1)
           ELSE placeholderMatches(s, k + 1)

\* detections.filter(d => d.replacement === placeholder)
matchingDetections(detections, placeholder) ==
  SelectSeq(detections, LAMBDA d : d.replacement = placeholder)

\* placeholderCounts.get(placeholder) || 0 when the n-th match is reached
countBefore(matches, n) ==
  Cardinality({j \in 1..(n - 1) : matches[j].text = matches[n].text})

\* detections.filter(...)[count] with count taken as the token's offset
\* among all tokens instead of among the tokens of its placeholder
BindByGlobalCount(detections, matches, n) ==
  LET md == matchingDetections(detections, matches[n].text)
      count == n - 1
  IN  IF count < Len(md) THEN md[count + 1] ELSE NoDetection

\* the detection positionToDetection holds for the n-th match, NoDetection
\* when the map has no entry for it
BindMatch(detections, matches, n) ==
  LET md == matchingDetections(detections, matches[n].text)
      count == countBefore(matches, n)
  IN  IF count < Len(md) THEN md[count + 1] ELSE NoDetection

\* positionToDetection: match.index -> detection, for the matches it binds
positionToDetection(anonymizedText, detections) ==
  LET matches == placeholderMatches(anonymizedText, 0)
      bound == {n \in 1..Len(matches) :
                  BindMatch(detections, matches, n) # NoDetection}
  IN  [p \in {matches[n].index : n \in bound} |->
         BindMatch(detections, matches,
                   CHOOSE n \in bound : matches[n].index = p)]

\* replacementMap.get(placeholder): the first detection of the placeholder
replacementMap(detections, placeholder) ==
  LET md == matchingDetections(detections, placeholder)
  IN  IF Len(md) > 0 THEN md[1] ELSE NoDetection

\* positionToDetection.get(matchStart) || replacementMap.get(placeholder)
tokenDetection(anonymizedText, detections, match) ==
  LET map == positionToDetection(anonymizedText, detections)
  IN  IF match.index \in DOMAIN map THEN map[match.index]
      ELSE replacementMap(detections, match.text)

\* isInactive of processedContent; inactiveReplacements is the empty default
isInactive(detection, inactive) ==
  IF detection.i # Undefined THEN detection.i \in inactive ELSE FALSE

\* the branch taken on detection alone, without isInactive
tokenShownOriginal(anonymizedText, detections, inactive, match) ==
  LET detection == tokenDetection(anonymizedText, detections, match)
  IN  IF detection # NoDetection THEN detection.original ELSE match.text

\* what processedContent shows for one match
tokenShown(anonymizedText, detections, inactive, match) ==
  LET detection == tokenDetection(anonymizedText, detections, match)
  IN  IF isInactive(detection, inactive) /\ detection # NoDetection
      THEN detection.original
      ELSE match.text

\* processedContent, as the text its spans display, from the n-th match on
RECURSIVE renderFrom(_, _, _, _, _, _)
renderFrom(anonymizedText, detections, inactive, matches, n, lastIndex) ==
  IF n > Len(matches)
  THEN Substring(anonymizedText, lastIndex, Len(anonymizedText))
  ELSE Substring(anonymizedText, lastIndex, matches[n].index)
         \o tokenShown(anonymizedText, detections, inactive, matches[n])
         \o renderFrom(anonymizedText, detections, inactive, matches, n + 1,
                       matches[n].index + Len(matches[n].text))

processedContent(anonymizedText, detections, inactive) ==
  renderFrom(anonymizedText, detections, inactive,
             placeholderMatches(anonymizedText, 0), 1, 0)

(***************************************************************************)
(* ChatInterface: Export Reversal and the activation maps.                 *)
(***************************************************************************)

\* [...detections].filter(d => inactiveIndices.has(d.i))
\*   .sort((a, b) => b.i - a.i): descending i, equal i in array order
RECURSIVE sortedDetections(_, _)
sortedDetections(detections, inactiveIndices) ==
  LET kept == SelectSeq(detections, LAMBDA d : d.i \in inactiveIndices)
      top == CHOOSE k \in 1..Len(kept) :
               /\ \A j \in 1..Len(kept) : kept[j].i <= kept[k].i
               /\ \A j \in 1..(k - 1) : kept[j].i < kept[k].i
      rest == [j \in 1..(Len(kept) - 1) |->
                 IF j < top THEN kept[j] ELSE kept[j + 1]]
  IN  IF Len(kept) = 0 THEN <<>>
      ELSE <<kept[top]>> \o sortedDetections(rest, inactiveIndices)

\* one turn of the for loop: the match of detection.replacement whose
\* occurrenceCount equals detection.i becomes detection.original
applyOne(adjustedText, detection) ==
  LET positions == replacementPositions(adjustedText, detection.replacement, 0)
  IN  IF detection.i < Len(positions)
      THEN LET index == positions[detection.i + 1]
           IN  Substring(adjustedText, 0, index) \o detection.original
                 \o Substring(adjustedText, index + Len(detection.replacement),
                              Len(adjustedText))
      ELSE adjustedText

RECURSIVE applyAll(_, _, _)
applyAll(adjustedText, sorted, k) ==
  IF k > Len(sorted) THEN adjustedText
  ELSE applyAll(applyOne(adjustedText, sorted[k]), sorted, k + 1)

\* applyInactiveOccurrences(text, detections, inactiveIndices)
applyInactiveOccurrences(text, detections, inactiveIndices) ==
  applyAll(text, sortedDetections(detections, inactiveIndices), 1)

\* prev.get(messageIndex) || []
MapGet(map, messageIndex) ==
  IF messageIndex \in DOMAIN map THEN map[messageIndex] ELSE {}

\* newMap.set(messageIndex, messageInactives) whatever the size of the set
MapPutKeepEmpty(map, messageIndex, set) ==
  [k \in DOMAIN map \cup {messageIndex} |->
     IF k = messageIndex THEN set ELSE map[k]]

\* newMap.delete(messageIndex) when the set is empty, else newMap.set(...)
MapPut(map, messageIndex, set) ==
  IF set = {}
  THEN [k \in DOMAIN map \ {messageIndex} |-> map[k]]
  ELSE [k \in DOMAIN map \cup {messageIndex} |->
          IF k = messageIndex THEN set ELSE map[k]]

\* the updater of handleToggleOccurrence
toggleOccurrence(prev, messageIndex, occurrenceIndex, makeActive) ==
  LET messageInactives == MapGet(prev, messageIndex)
  IN  MapPut(prev, messageIndex,
             IF makeActive THEN messageInactives \ {occurrenceIndex}
             ELSE messageInactives \cup {occurrenceIndex})

\* the updater without the test detection.replacement === placeholder
toggleEveryOccurrence(prev, messageIndex, detections, placeholder, makeActive) ==
  LET messageInactives == MapGet(prev, messageIndex)
      hit == {detections[k].i : k \in 1..Len(detections)}
  IN  MapPut(prev, messageIndex,
             IF makeActive THEN messageInactives \ hit
             ELSE messageInactives \cup hit)

\* the updater of handleToggleAllOccurrences
toggleAllOccurrences(prev, messageIndex, detections, placeholder, makeActive) ==
  LET messageInactives == MapGet(prev, messageIndex)
      hit == {detections[k].i : k \in {j \in 1..Len(detections) :
                                  detections[j].replacement = placeholder}}
  IN  MapPut(prev, messageIndex,
             IF makeActive THEN messageInactives \ hit
             ELSE messageInactives \cup hit)

(***************************************************************************)
(* Inputs of the model: what the user types and selects and what the       *)
(* backend answers.                                                        *)
(***************************************************************************)
Sp == <<" ">>
Tab == <<"a","b">>
Tx == <<"x">>
TID1 == <<"[","I","D","_","1","]">>

\* the entity types the user picks in the model
EntityTypes == {"id", "ssn"}

\* the texts the user selects in the model
Selections == {Tab, Tx}

\* the positions the user drags the confidence slider to (min 0, max 100,
\* step 5)
SliderValues == {0, 65, 95}

Detection(type, original, replacement, confidence, idx) ==
  [type |-> type, original |-> original, replacement |-> replacement,
   confidence |-> confidence, i |-> idx]

\* a submitted text with the complete event the backend answers it with: an
\* empty anonymized_text is a complete event without final text; every
\* detection list has i equal to the array index
Scenarios ==
  { [input |-> Tx \o Sp \o Tab \o Sp \o Tab,
     anonymized_text |-> Tx \o Sp \o Tab \o Sp \o Tab,
     hasReasoning |-> TRUE,
     detected_pii |-> <<>>],
    [input |-> Tab \o Sp \o Tx \o Sp \o Tab,
     anonymized_text |-> TID1 \o Sp \o Tx \o Sp \o Tab,
     hasReasoning |-> TRUE,
     detected_pii |-> <<Detection("id", Tab, TID1, 95, 0)>>],
    [input |-> Tab \o Sp \o Tx \o Sp \o Tab,
     anonymized_text |-> TID1 \o Sp \o Tx \o Sp \o TID1,
     hasReasoning |-> TRUE,
     detected_pii |-> <<Detection("id", Tab, TID1, 90, 0),
                        Detection("id", Tab, TID1, 60, 1)>>],
    [input |-> Tab \o Sp \o Tx \o Sp \o Tab,
     anonymized_text |-> <<>>,
     hasReasoning |-> TRUE,
     detected_pii |-> <<Detection("id", Tab, TID1, 90, 0)>>],
    [input |-> Tx \o Sp \o Tab \o Sp \o Tab,
     anonymized_text |-> <<>>,
     hasReasoning |-> FALSE,
     detected_pii |-> <<>>] }

\* texts with a second letter case, a word that is a placeholder name in
\* lower case, and a backend placeholder whose number is not 1
TAB == <<"A","B">>
Tid == <<"i","d">>
TID2 == <<"[","I","D","_","2","]">>

\* the complete events behind the tagging specification: a text the backend
\* left as it was, and one with the placeholder [ID_2]
TaggingScenarios ==
  { [input |-> Tab \o Sp \o Tx \o Sp \o TAB,
     anonymized_text |-> Tab \o Sp \o Tx \o Sp \o TAB,
     hasReasoning |-> TRUE,
     detected_pii |-> <<>>],
    [input |-> Tab \o Sp \o Tx \o Sp \o Tid,
     anonymized_text |-> TID2 \o Sp \o Tx \o Sp \o Tid,
     hasReasoning |-> TRUE,
     detected_pii |-> <<Detection("id", Tab, TID2, 95, 0)>>] }

\* the texts the user selects in the tagging specification
TaggingSelections == {Tab, Tx, Tid}

\* chunk.content of the content chunks the backend streams
ContentChunks == {Tab, Sp \o Tx}

\* chunk.content of a thinking chunk, chunk.message of a status chunk and of
\* an error chunk, err.message of an exception of the transport
ThinkingChunk == <<"t">>
StatusMessage == <<"s">>
ErrorMessage == <<"e">>
TransportFailure == <<"f">>

\* 'Processing your request...'
ProcessingText ==
  <<"P","r","o","c","e","s","s","i","n","g"," ","y","o","u","r"," ",
    "r","e","q","u","e","s","t",".",".",".">>

(***************************************************************************)
(* State.                                                                  *)
(***************************************************************************)
VARIABLES
  messages,             \* useChatMessages: the Message[] of the conversation
  inactiveOccurrences,  \* ChatInterface: message index -> set of inactive i
  inactiveEntities,     \* ChatInterface: message index -> set of originals
  isProcessing,         \* useAnonymization: state.isProcessing
  error,                \* useAnonymization: state.error, <<>> for null
  stream,               \* the anonymizeTextStream call in flight, if any
  submits,              \* number of submissions so far; message ids derive from it
  steps,                \* number of handler runs so far
  budget,               \* number of handler runs the behaviour may have
  lastOp                \* the handler that ran last, with its arguments

vars == <<messages, inactiveOccurrences, inactiveEntities, isProcessing,
          error, stream, submits, steps, budget, lastOp>>

\* the locals of handleSubmit that its onChunk callback reads: streamingContent,
\* thinkingContent, currentChunkThinking and currentStatus; chunks counts the
\* chunks delivered before the terminal event
NoStream ==
  [open |-> FALSE, id |-> 0, input |-> <<>>, streamingContent |-> <<>>,
   thinkingContent |-> <<>>, currentChunkThinking |-> <<>>,
   currentStatus |-> <<>>, chunks |-> 0]

Op(name, messageIndex, text, entityType, k, makeActive) ==
  [op |-> name, messageIndex |-> messageIndex, text |-> text,
   entityType |-> entityType, k |-> k, makeActive |-> makeActive]

\* the state after construction, with the number of handler runs to explore
Start(handlerRuns) ==
  /\ messages = <<>>
  /\ inactiveOccurrences = <<>>
  /\ inactiveEntities = <<>>
  /\ isProcessing = FALSE
  /\ error = <<>>
  /\ stream = NoStream
  /\ submits = 0
  /\ steps = 0
  /\ budget = handlerRuns
  /\ lastOp = Op("init", 0, <<>>, "", 0, FALSE)

Init == Start(MaxSteps)

\* one more handler run, within the bound of the behaviour
Step ==
  /\ steps < budget
  /\ steps' = steps + 1
  /\ budget' = budget

\* message indices are 0-based as in the source
MessageIndices == 0..(Len(messages) - 1)

Msg(messageIndex) == messages[messageIndex + 1]

\* useChatMessages.updateMessage(id, updates): updates maps the fields to
\* overwrite to their new values
updateMessage(msgs, id, updates) ==
  [j \in 1..Len(msgs) |->
     IF msgs[j].id = id
     THEN [f \in DOMAIN msgs[j] |->
             IF f \in DOMAIN updates THEN updates[f] ELSE msgs[j][f]]
     ELSE msgs[j]]

\* useChatMessages.addMessage(content, type)
newMessage(id, type, content) ==
  [id |-> id, type |-> type, content |-> content, hasReasoning |-> FALSE,
   detected_pii |-> <<>>, isProcessing |-> FALSE]

(***************************************************************************)
(* Submitting and streaming.                                               *)
(***************************************************************************)

\* handleSubmit up to its await, with the synchronous start of
\* anonymizeTextStream: the user message, the assistant message that is
\* marked processing, and the hook's isProcessing
HandleSubmit(sc) ==
  /\ Step
  /\ ~isProcessing
  /\ submits < MaxSubmits
  /\ LET userId == 2 * submits + 1
         assistantMessageId == 2 * submits + 2
         added == messages \o <<newMessage(userId, "user", sc.input),
                                newMessage(assistantMessageId, "assistant",
                                           ProcessingText)>>
     IN  /\ messages' = updateMessage(added, assistantMessageId,
                                      [isProcessing |-> TRUE])
         /\ stream' = [NoStream EXCEPT !.open = TRUE, !.id = assistantMessageId,
                                       !.input = sc.input]
  /\ submits' = submits + 1
  /\ isProcessing' = TRUE
  /\ error' = <<>>
  /\ lastOp' = Op("handleSubmit", Len(messages) + 1, sc.input, "", 0, FALSE)
  /\ UNCHANGED <<inactiveOccurrences, inactiveEntities>>

\* the literals of the onChunk callback; each emoji is one element, named by
\* its code point
ThinkingHeader ==
  <<"\n","\n","U+1F914"," ","T","h","i","n","k","i","n","g",":","\n">>

OutputHeader == <<"\n","\n","U+1F4DD"," ","O","u","t","p","u","t",":","\n">>

PreviousOutputHeader ==
  <<"\n","\n","U+1F4DD"," ","P","r","e","v","i","o","u","s"," ",
    "o","u","t","p","u","t",":","\n">>

AnalyzingHeader ==
  <<"U+1F914"," ","A","I"," ","i","s"," ","a","n","a","l","y","z","i","n","g",
    ".",".",".","\n","\n">>

StatusPrefix == <<"U+23F3"," ">>

ErrorPrefix == <<"E","r","r","o","r",":"," ">>

\* streamingContent.split('\n').length
lineCount(streamingContent) ==
  Cardinality({k \in 1..Len(streamingContent) : streamingContent[k] = "\n"}) + 1

\* `\n\n<memo> Previous output: ${lineCount} lines processed...`
PreviousOutputSummary(streamingContent) ==
  <<"\n","\n","U+1F4DD"," ","P","r","e","v","i","o","u","s"," ",
    "o","u","t","p","u","t",":"," ">>
    \o NumToString(lineCount(streamingContent))
    \o <<" ","l","i","n","e","s"," ","p","r","o","c","e","s","s","e","d",
         ".",".",".">>

\* a content chunk: onChunk appends it to streamingContent and shows the
\* status, the thinking of the current chunk and the output so far
OnChunkContent(content) ==
  /\ Step
  /\ stream.open
  /\ stream.chunks < MaxChunks
  /\ LET streamingContent == stream.streamingContent \o content
         displayContent ==
           IF Len(stream.currentStatus) > 0
           THEN stream.currentStatus
                  \o (IF Len(stream.currentChunkThinking) > 0
                      THEN ThinkingHeader \o stream.currentChunkThinking
                      ELSE <<>>)
                  \o OutputHeader \o streamingContent
           ELSE streamingContent
     IN  /\ stream' = [stream EXCEPT !.streamingContent = streamingContent,
                                     !.chunks = @ + 1]
         /\ messages' = updateMessage(messages, stream.id,
                          [content |-> displayContent, isProcessing |-> TRUE])
  /\ lastOp' = Op("content", 0, content, "", 0, FALSE)
  /\ UNCHANGED <<inactiveOccurrences, inactiveEntities, isProcessing, error,
                 submits>>

\* a thinking chunk
OnChunkThinking ==
  /\ Step
  /\ stream.open
  /\ stream.chunks < MaxChunks
  /\ LET thinkingContent == stream.thinkingContent \o ThinkingChunk
         currentChunkThinking == stream.currentChunkThinking \o ThinkingChunk
         thinkingDisplay ==
           IF Len(stream.currentStatus) > 0
           THEN stream.currentStatus \o ThinkingHeader \o currentChunkThinking
                  \o (IF Len(stream.streamingContent) > 0
                      THEN PreviousOutputSummary(stream.streamingContent)
                      ELSE <<>>)
           ELSE AnalyzingHeader \o thinkingContent
     IN  /\ stream' = [stream EXCEPT !.thinkingContent = thinkingContent,
                                     !.currentChunkThinking = currentChunkThinking,
                                     !.chunks = @ + 1]
         /\ messages' = updateMessage(messages, stream.id,
                          [content |-> thinkingDisplay, isProcessing |-> TRUE])
  /\ lastOp' = Op("thinking", 0, ThinkingChunk, "", 0, FALSE)
  /\ UNCHANGED <<inactiveOccurrences, inactiveEntities, isProcessing, error,
                 submits>>

\* a status chunk: a new chunk of the input starts
OnChunkStatus ==
  /\ Step
  /\ stream.open
  /\ stream.chunks < MaxChunks
  /\ LET currentStatus == StatusPrefix \o StatusMessage
         statusDisplay ==
           IF Len(stream.streamingContent) > 0
           THEN currentStatus \o PreviousOutputHeader \o stream.streamingContent
           ELSE currentStatus
     IN  /\ stream' = [stream EXCEPT !.currentStatus = currentStatus,
                                     !.currentChunkThinking = <<>>,
                                     !.chunks = @ + 1]
         /\ messages' = updateMessage(messages, stream.id,
                          [content |-> statusDisplay, isProcessing |-> TRUE])
  /\ lastOp' = Op("status", 0, StatusMessage, "", 0, FALSE)
  /\ UNCHANGED <<inactiveOccurrences, inactiveEntities, isProcessing, error,
                 submits>>

\* 'Streaming failed'
StreamingFailed ==
  <<"S","t","r","e","a","m","i","n","g"," ","f","a","i","l","e","d">>

\* an error chunk that anonymizeTextStream passes to onChunk and then treats
\* like a chunk of a type it does not know: no throw, the loop goes on
OnChunkErrorNotTerminal ==
  /\ Step
  /\ stream.open
  /\ messages' = updateMessage(messages, stream.id,
                   [content |-> ErrorPrefix \o ErrorMessage,
                    isProcessing |-> FALSE])
  /\ lastOp' = Op("error", 0, ErrorMessage, "", 0, FALSE)
  /\ UNCHANGED <<inactiveOccurrences, inactiveEntities, isProcessing, error,
                 stream, submits>>

\* an error chunk: onChunk writes the error into the message, then
\* anonymizeTextStream throws chunk.message || 'Streaming failed' into its
\* own catch, which records it in the hook's state; the for-await loop is left
OnChunkError ==
  /\ Step
  /\ stream.open
  /\ messages' = updateMessage(messages, stream.id,
                   [content |-> ErrorPrefix \o ErrorMessage,
                    isProcessing |-> FALSE])
  /\ isProcessing' = FALSE
  /\ error' = IF Len(ErrorMessage) > 0 THEN ErrorMessage ELSE StreamingFailed
  /\ stream' = NoStream
  /\ lastOp' = Op("error", 0, ErrorMessage, "", 0, FALSE)
  /\ UNCHANGED <<inactiveOccurrences, inactiveEntities, submits>>

\* the transport throws (fetch fails, the response is not ok, reader.read()
\* rejects): the catch of anonymizeTextStream records the error and returns,
\* so the catch of handleSubmit does not run
StreamThrows ==
  /\ Step
  /\ stream.open
  /\ isProcessing' = FALSE
  /\ error' = TransportFailure
  /\ stream' = NoStream
  /\ lastOp' = Op("throw", 0, TransportFailure, "", 0, FALSE)
  /\ UNCHANGED <<messages, inactiveOccurrences, inactiveEntities, submits>>

\* the response body ends without complete or error event: the for-await
\* loop ends and anonymizeTextStream returns without touching its state
StreamEnds ==
  /\ Step
  /\ stream.open
  /\ stream' = NoStream
  /\ lastOp' = Op("end", 0, <<>>, "", 0, FALSE)
  /\ UNCHANGED <<messages, inactiveOccurrences, inactiveEntities, isProcessing,
                 error, submits>>

\* [...detections].sort((a, b) => b.original.length - a.original.length)
RECURSIVE sortByLength(_)
sortByLength(detections) ==
  LET top == CHOOSE k \in 1..Len(detections) :
               /\ \A j \in 1..Len(detections) :
                    Len(detections[j].original) <= Len(detections[k].original)
               /\ \A j \in 1..(k - 1) :
                    Len(detections[j].original) < Len(detections[k].original)
      rest == [j \in 1..(Len(detections) - 1) |->
                 IF j < top THEN detections[j] ELSE detections[j + 1]]
  IN  IF Len(detections) = 0 THEN <<>>
      ELSE <<detections[top]>> \o sortByLength(rest)

\* the fallback of the complete event: every occurrence of each original in
\* the streamed content becomes its replacement, longest original first
RECURSIVE reconstruct(_, _, _)
reconstruct(finalContent, sorted, k) ==
  IF k > Len(sorted) THEN finalContent
  ELSE reconstruct(
         IF Len(sorted[k].original) > 0 /\ Len(sorted[k].replacement) > 0
         THEN ReplaceAllCI(finalContent, sorted[k].original, sorted[k].replacement)
         ELSE finalContent,
         sorted, k + 1)

\* contentToStore with the streamed content taken before the final text:
\* streamingContent || finalContent || ''
contentToStoreStreamedFirst(chunk, streamingContent) ==
  LET finalContent ==
        IF Len(chunk.anonymized_text) = 0 /\ chunk.hasReasoning
             /\ Len(chunk.detected_pii) > 0
        THEN reconstruct(streamingContent, sortByLength(chunk.detected_pii), 1)
        ELSE chunk.anonymized_text
  IN  IF Len(streamingContent) > 0 THEN streamingContent ELSE finalContent

\* contentToStore of the complete event
contentToStore(chunk, streamingContent) ==
  LET finalContent ==
        IF Len(chunk.anonymized_text) = 0 /\ chunk.hasReasoning
             /\ Len(chunk.detected_pii) > 0
        THEN reconstruct(streamingContent, sortByLength(chunk.detected_pii), 1)
        ELSE chunk.anonymized_text
  IN  IF Len(finalContent) > 0 THEN finalContent ELSE streamingContent

\* the complete event: onChunk of handleSubmit stores content and reasoning,
\* then anonymizeTextStream clears the hook's isProcessing and leaves its loop
OnChunkComplete(sc) ==
  /\ Step
  /\ stream.open
  /\ sc.input = stream.input
  /\ messages' = updateMessage(messages, stream.id,
                   [content |-> contentToStore(sc, stream.streamingContent),
                    hasReasoning |-> sc.hasReasoning,
                    detected_pii |-> sc.detected_pii,
                    isProcessing |-> FALSE])
  /\ isProcessing' = FALSE
  /\ stream' = NoStream
  /\ lastOp' = Op("complete", 0, sc.input, "", 0, FALSE)
  /\ UNCHANGED <<inactiveOccurrences, inactiveEntities, error, submits>>

\* handleClearMessages: clearMessages() and clearError()
HandleClearMessages ==
  /\ Step
  /\ messages' = <<>>
  /\ error' = <<>>
  /\ lastOp' = Op("handleClearMessages", 0, <<>>, "", 0, FALSE)
  /\ UNCHANGED <<inactiveOccurrences, inactiveEntities, isProcessing, stream,
                 submits>>

(***************************************************************************)
(* Tagging.                                                                *)
(***************************************************************************)

\* ProfessionalMessageComponent renders the body of a message
Rendered(m) == ~(m.isProcessing /\ Len(m.content) = 0)

\* the text is on the page, so the user can select it: in a message's text
\* or as the original of a detection
Selectable(text) ==
  \E j \in 1..Len(messages) :
    \/ IndexOf(messages[j].content, text, 0) # -1
    \/ \E k \in 1..Len(messages[j].detected_pii) :
         messages[j].detected_pii[k].original = text

\* ChatInterface.handleReplace / handleReplaceAll: the message takes the new
\* content and a reasoning whose detected_pii is the new array
applyReplace(messageIndex, result) ==
  updateMessage(messages, Msg(messageIndex).id,
                [content |-> result.content, hasReasoning |-> TRUE,
                 detected_pii |-> result.detections])

\* Manual Tagging: TextSelectionReplacer.handleReplace on the selection,
\* then ChatInterface.handleReplace
HandleReplace(messageIndex, text, entityType) ==
  /\ Step
  /\ messageIndex \in MessageIndices
  /\ Msg(messageIndex).type # "user"
  /\ Rendered(Msg(messageIndex))
  /\ Selectable(text)
  /\ Len(Msg(messageIndex).detected_pii) < MaxDetections
  /\ messages' = applyReplace(messageIndex,
                   handleReplaceResult(Msg(messageIndex).content,
                                       Msg(messageIndex).detected_pii,
                                       text, entityType))
  /\ lastOp' = Op("handleReplace", messageIndex, text, entityType, 0, FALSE)
  /\ UNCHANGED <<inactiveOccurrences, inactiveEntities, isProcessing, error,
                 stream, submits>>

\* Replace-All: TextSelectionReplacer.handleReplaceAll on the selection,
\* then ChatInterface.handleReplaceAll
HandleReplaceAll(messageIndex, text, entityType) ==
  /\ Step
  /\ messageIndex \in MessageIndices
  /\ Msg(messageIndex).type # "user"
  /\ Rendered(Msg(messageIndex))
  /\ Selectable(text)
  /\ Len(Msg(messageIndex).detected_pii) < MaxDetections
  /\ messages' = applyReplace(messageIndex,
                   handleReplaceAllResult(Msg(messageIndex).content,
                                          Msg(messageIndex).detected_pii,
                                          text, entityType))
  /\ lastOp' = Op("handleReplaceAll", messageIndex, text, entityType, 0, FALSE)
  /\ UNCHANGED <<inactiveOccurrences, inactiveEntities, isProcessing, error,
                 stream, submits>>

(***************************************************************************)
(* Toggling and copying.                                                   *)
(***************************************************************************)

\* the inactive set ProfessionalMessageComponent passes down for a message
InactiveOf(messageIndex) == MapGet(inactiveOccurrences, messageIndex)

\* InteractiveAnonymizedText is rendered for the message
Interactive(messageIndex) ==
  /\ messageIndex \in MessageIndices
  /\ Msg(messageIndex).type # "user"
  /\ Rendered(Msg(messageIndex))
  /\ Msg(messageIndex).hasReasoning
  /\ Len(Msg(messageIndex).detected_pii) > 0

\* the tokens InteractiveAnonymizedText shows for the message
MatchesOf(messageIndex) == placeholderMatches(Msg(messageIndex).content, 0)

\* a click on the n-th token of the message's text: the onClick of the
\* inactive span, or onToggle of the InteractiveLabel, then
\* handleToggleOccurrence
ClickToken(messageIndex, n) ==
  /\ Step
  /\ Interactive(messageIndex)
  /\ n \in 1..Len(MatchesOf(messageIndex))
  /\ LET m == Msg(messageIndex)
         detection == tokenDetection(m.content, m.detected_pii, MatchesOf(messageIndex)[n])
         detectionIndex == detection.i
         shownOriginal == isInactive(detection, InactiveOf(messageIndex))
                            /\ detection # NoDetection
     IN  /\ inactiveOccurrences' =
               IF detectionIndex # Undefined
               THEN toggleOccurrence(inactiveOccurrences, messageIndex,
                                     detectionIndex, shownOriginal)
               ELSE inactiveOccurrences
         /\ lastOp' = Op("clickToken", messageIndex, MatchesOf(messageIndex)[n].text,
                         "", n, shownOriginal)
  /\ UNCHANGED <<messages, inactiveEntities, isProcessing, error, stream,
                 submits>>

\* ResultDisplay is rendered for the message
HasResultDisplay(messageIndex) ==
  /\ messageIndex \in MessageIndices
  /\ Msg(messageIndex).type # "user"
  /\ Rendered(Msg(messageIndex))
  /\ Msg(messageIndex).hasReasoning

\* onToggle of the PIIDetectionItem of the detection at array index k, then
\* handleToggleOccurrence
ClickDetectionItem(messageIndex, k) ==
  /\ Step
  /\ HasResultDisplay(messageIndex)
  /\ k \in 0..(Len(Msg(messageIndex).detected_pii) - 1)
  /\ LET occurrenceIndex == Msg(messageIndex).detected_pii[k + 1].i
         isCurrentlyActive == occurrenceIndex \notin InactiveOf(messageIndex)
     IN  /\ inactiveOccurrences' =
               toggleOccurrence(inactiveOccurrences, messageIndex,
                                occurrenceIndex, ~isCurrentlyActive)
         /\ lastOp' = Op("clickDetectionItem", messageIndex, <<>>, "",
                         occurrenceIndex, ~isCurrentlyActive)
  /\ UNCHANGED <<messages, inactiveEntities, isProcessing, error, stream,
                 submits>>

\* ResultDisplay.countOccurrences(): the counts of its header and chip
countOccurrences(detections, inactive) ==
  LET totalCount == Len(detections)
      inactiveCount == Cardinality({k \in 1..Len(detections) :
                                      detections[k].i \in inactive})
  IN  [total |-> totalCount, inactive |-> inactiveCount,
       active |-> totalCount - inactiveCount]

\* exportToCSV: the 'Active Items' and 'Inactive Items' of its summary rows
exportCounts(detections, inactive) ==
  LET activeCount == Cardinality({k \in 1..Len(detections) :
                                    detections[k].i \notin inactive})
  IN  [active |-> activeCount, inactive |-> Len(detections) - activeCount]

\* reasoning.detected_pii.forEach(...) of handleSliderChange from array index
\* k on: onToggleOccurrence(detection.i, makeActive) for every detection whose
\* i is in the set hit, each call an updater on the map the one before left
RECURSIVE forEachToggle(_, _, _, _, _, _)
forEachToggle(map, messageIndex, detections, k, hit, makeActive) ==
  IF k > Len(detections) THEN map
  ELSE forEachToggle(
         IF detections[k].i \in hit
         THEN toggleOccurrence(map, messageIndex, detections[k].i, makeActive)
         ELSE map,
         messageIndex, detections, k + 1, hit, makeActive)

\* the inactive map after handleSliderChange(value): first every detection
\* that the rendered inactive set holds is activated, then, for value > 0,
\* every detection with confidence * 100 < value is deactivated
sliderChange(map, messageIndex, detections, inactive, value) ==
  LET reset == forEachToggle(map, messageIndex, detections, 1, inactive, TRUE)
      below == {detections[k].i : k \in {j \in 1..Len(detections) :
                                           detections[j].confidence < value}}
  IN  IF value > 0
      THEN forEachToggle(reset, messageIndex, detections, 1, below, FALSE)
      ELSE reset

\* ResultDisplay.handleSliderChange(value) of the message's confidence slider
HandleSliderChange(messageIndex, value) ==
  /\ Step
  /\ HasResultDisplay(messageIndex)
  /\ inactiveOccurrences' =
       sliderChange(inactiveOccurrences, messageIndex,
                    Msg(messageIndex).detected_pii, InactiveOf(messageIndex), value)
  /\ lastOp' = Op("handleSliderChange", messageIndex, <<>>, "", value, FALSE)
  /\ UNCHANGED <<messages, inactiveEntities, isProcessing, error, stream,
                 submits>>

\* handleToggleAllOccurrences(messageIndex, placeholder, makeActive)
HandleToggleAllOccurrences(messageIndex, n, makeActive) ==
  /\ Step
  /\ Interactive(messageIndex)
  /\ n \in 1..Len(MatchesOf(messageIndex))
  /\ LET placeholder == MatchesOf(messageIndex)[n].text
     IN  /\ inactiveOccurrences' =
               toggleAllOccurrences(inactiveOccurrences, messageIndex,
                                    Msg(messageIndex).detected_pii,
                                    placeholder, makeActive)
         /\ lastOp' = Op("handleToggleAllOccurrences", messageIndex,
                         placeholder, "", 0, makeActive)
  /\ UNCHANGED <<messages, inactiveEntities, isProcessing, error, stream,
                 submits>>

\* handleToggleEntity(messageIndex, originalText, makeActive): after the
\* guard it calls setInactiveReplacements, which ChatInterface does not
\* declare, so the call throws before either state setter runs
HandleToggleEntity(messageIndex, k, makeActive) ==
  /\ Step
  /\ messageIndex \in MessageIndices
  /\ Msg(messageIndex).hasReasoning
  /\ k \in 1..Len(Msg(messageIndex).detected_pii)
  /\ lastOp' = Op("handleToggleEntity", messageIndex,
                  Msg(messageIndex).detected_pii[k].original, "", 0, makeActive)
  /\ UNCHANGED <<messages, inactiveOccurrences, inactiveEntities, isProcessing,
                 error, stream, submits>>

\* copyToClipboard(message.content, messageIndex) from the copy button; the
\* text it writes to the clipboard is kept in lastOp.text
CopyToClipboard(messageIndex) ==
  /\ Step
  /\ messageIndex \in MessageIndices
  /\ Msg(messageIndex).type # "user"
  /\ ~Msg(messageIndex).isProcessing
  /\ LET m == Msg(messageIndex)
         inactiveIndices == MapGet(inactiveOccurrences, messageIndex)
         textToCopy == IF m.hasReasoning /\ inactiveIndices # {}
                       THEN applyInactiveOccurrences(m.content, m.detected_pii,
                                                     inactiveIndices)
                       ELSE m.content
     IN  lastOp' = Op("copyToClipboard", messageIndex, textToCopy, "", 0, FALSE)
  /\ UNCHANGED <<messages, inactiveOccurrences, inactiveEntities, isProcessing,
                 error, stream, submits>>

(***************************************************************************)
(* Specification.                                                          *)
(***************************************************************************)
\* the messages whose stream has ended
Settled == {messageIndex \in MessageIndices : ~Msg(messageIndex).isProcessing}

\* editing: the handlers the user reaches once a stream has delivered its
\* complete event
Next ==
  \/ \E sc \in Scenarios : HandleSubmit(sc)
  \/ \E sc \in Scenarios : OnChunkComplete(sc)
  \/ HandleClearMessages
  \/ \E messageIndex \in Settled : \E text \in Selections : \E entityType \in EntityTypes :
       HandleReplace(messageIndex, text, entityType)
  \/ \E messageIndex \in Settled : \E text \in Selections : \E entityType \in EntityTypes :
       HandleReplaceAll(messageIndex, text, entityType)
  \/ \E messageIndex \in MessageIndices : \E n \in 1..MaxDetections :
       ClickToken(messageIndex, n)
  \/ \E messageIndex \in MessageIndices : \E k \in 0..MaxDetections :
       ClickDetectionItem(messageIndex, k)
  \/ \E messageIndex \in MessageIndices : \E n \in 1..MaxDetections : \E makeActive \in BOOLEAN :
       HandleToggleAllOccurrences(messageIndex, n, makeActive)
  \/ \E messageIndex \in MessageIndices : \E k \in 1..MaxDetections : \E makeActive \in BOOLEAN :
       HandleToggleEntity(messageIndex, k, makeActive)
  \/ \E messageIndex \in MessageIndices : CopyToClipboard(messageIndex)

Spec == Init /\ [][Next]_vars

\* streaming: the chunks of a stream one by one, every way a stream ends, and
\* the tagging handlers on every message that is on the page, processing or
\* not
StreamInit == Start(MaxStreamSteps)

StreamNext ==
  \/ \E sc \in Scenarios : HandleSubmit(sc)
  \/ \E content \in ContentChunks : OnChunkContent(content)
  \/ OnChunkThinking
  \/ OnChunkStatus
  \/ \E sc \in Scenarios : OnChunkComplete(sc)
  \/ OnChunkError
  \/ StreamThrows
  \/ StreamEnds
  \/ HandleClearMessages
  \/ \E messageIndex \in MessageIndices : \E text \in Selections : \E entityType \in EntityTypes :
       HandleReplace(messageIndex, text, entityType)
  \/ \E messageIndex \in MessageIndices : \E text \in Selections : \E entityType \in EntityTypes :
       HandleReplaceAll(messageIndex, text, entityType)

StreamSpec == StreamInit /\ [][StreamNext]_vars

\* the same with progress: the event loop runs a callback or handler that is
\* ready, so a step is taken as long as one is possible
StreamLiveSpec == StreamInit /\ [][StreamNext]_vars /\ WF_vars(StreamNext)

\* activation: the handlers that write the inactive occurrence map, with the
\* ones that create and drop messages
ActivationInit == Start(MaxActivationSteps)

ActivationNext ==
  \/ \E sc \in Scenarios : HandleSubmit(sc)
  \/ \E sc \in Scenarios : OnChunkComplete(sc)
  \/ HandleClearMessages
  \/ \E messageIndex \in MessageIndices : \E n \in 1..MaxDetections :
       ClickToken(messageIndex, n)
  \/ \E messageIndex \in MessageIndices : \E k \in 0..MaxDetections :
       ClickDetectionItem(messageIndex, k)
  \/ \E messageIndex \in MessageIndices : \E value \in SliderValues :
       HandleSliderChange(messageIndex, value)

ActivationSpec == ActivationInit /\ [][ActivationNext]_vars

\* tagging: Manual Tagging and Replace-All on texts with two letter cases and
\* with a placeholder name in lower case, then the deactivation of tokens
TaggingInit == Start(MaxTaggingSteps)

TaggingNext ==
  \/ \E sc \in TaggingScenarios : HandleSubmit(sc)
  \/ \E sc \in TaggingScenarios : OnChunkComplete(sc)
  \/ \E messageIndex \in Settled : \E text \in TaggingSelections : \E entityType \in EntityTypes :
       HandleReplace(messageIndex, text, entityType)
  \/ \E messageIndex \in Settled : \E text \in TaggingSelections : \E entityType \in EntityTypes :
       HandleReplaceAll(messageIndex, text, entityType)
  \/ \E messageIndex \in MessageIndices : \E n \in 1..MaxDetections :
       ClickToken(messageIndex, n)
  \/ \E messageIndex \in MessageIndices : \E n \in 1..MaxDetections : \E makeActive \in BOOLEAN :
       HandleToggleAllOccurrences(messageIndex, n, makeActive)

TaggingSpec == TaggingInit /\ [][TaggingNext]_vars

(***************************************************************************)
(* Properties.                                                             *)
(***************************************************************************)

\* every message index the model can hold
AllIndices == 0..(2 * MaxSubmits - 1)

\* the case-insensitive occurrence test of Replace-All's regular expression
OccursCI(s, p) == \E k \in 0..(Len(s) - Len(p)) : MatchAtCI(s, p, k)

\* C1: Occurrence-index invariant.  In every message, reached from backend
\* detections that satisfy it by any sequence of Manual Tagging and
\* Replace-All, the detection at array index k has i = k, so the i values
\* are exactly 0..N-1 without gap or duplicate.
C1_OccurrenceIndexInvariant ==
  \A j \in 1..Len(messages) :
    \A k \in 1..Len(messages[j].detected_pii) :
      messages[j].detected_pii[k].i = k - 1

\* C1 witness: a tagging handler has just put the selected text's detection
\* at the head of the array, in front of two others which it renumbered
C1_Witness ==
  /\ lastOp.op \in {"handleReplace", "handleReplaceAll"}
  /\ \E j \in 1..Len(messages) :
       LET d == messages[j].detected_pii
       IN  /\ Len(d) >= 3
           /\ d[1].original = lastOp.text
           /\ d[1].type = lastOp.entityType
           /\ IndexOf(messages[j].content, d[1].replacement, 0) = 0
           /\ d[2].original # lastOp.text
           /\ d[3].i = 2

\* the text and the detection array of message messageIndex are the same
\* before and after the step
SameMessage(messageIndex) ==
  /\ Len(messages') = Len(messages)
  /\ messages'[messageIndex + 1].content = Msg(messageIndex).content
  /\ messages'[messageIndex + 1].detected_pii = Msg(messageIndex).detected_pii

\* C2: Manual Tagging NotFound.  When the selected text does not occur in the
\* message text, Manual Tagging changes neither the text, nor the detection
\* array, nor the inactive set.
C2_ManualTaggingNotFound ==
  [][\A messageIndex \in AllIndices : \A text \in Selections :
       \A entityType \in EntityTypes :
         (/\ HandleReplace(messageIndex, text, entityType)
          /\ IndexOf(Msg(messageIndex).content, text, 0) = -1)
         => (/\ SameMessage(messageIndex)
             /\ inactiveOccurrences' = inactiveOccurrences)]_vars

\* C3: Replace-All NotFound.  When the target text has no case-insensitive
\* occurrence in the message text, Replace-All changes neither the text nor
\* the detection array, whatever detections exist.
C3_ReplaceAllNotFound ==
  [][\A messageIndex \in AllIndices : \A text \in Selections :
       \A entityType \in EntityTypes :
         (/\ HandleReplaceAll(messageIndex, text, entityType)
          /\ ~OccursCI(Msg(messageIndex).content, text))
         => SameMessage(messageIndex)]_vars

\* C4: Replace-All is idempotent.  A Replace-All that follows a Replace-All
\* of the same message with the same text and entity type leaves the text
\* and the detection array as the first one left them.
C4_ReplaceAllIdempotent ==
  [][\A messageIndex \in AllIndices : \A text \in Selections :
       \A entityType \in EntityTypes :
         (/\ HandleReplaceAll(messageIndex, text, entityType)
          /\ lastOp = Op("handleReplaceAll", messageIndex, text, entityType, 0, FALSE))
         => SameMessage(messageIndex)]_vars

\* the text with its n-th token replaced by f[n], or kept where f[n] is
\* empty, from the n-th token on
RECURSIVE substituteFrom(_, _, _, _, _)
substituteFrom(text, matches, f, n, lastIndex) ==
  IF n > Len(matches) THEN Substring(text, lastIndex, Len(text))
  ELSE Substring(text, lastIndex, matches[n].index)
         \o (IF f[n] = <<>> THEN matches[n].text ELSE f[n])
         \o substituteFrom(text, matches, f, n + 1,
                           matches[n].index + Len(matches[n].text))

\* the ways to read out as text with some tokens replaced by originals of
\* its detections: f[n] is the original in place of the n-th token, empty
\* for a token that is still there
Readings(text, detections, out) ==
  LET matches == placeholderMatches(text, 0)
      originals == {detections[k].original : k \in 1..Len(detections)}
  IN  {f \in [1..Len(matches) -> originals \cup {<<>>}] :
         substituteFrom(text, matches, f, 1, 0) = out}

\* the detection the Position Resolver binds to the n-th token of the text
BoundTo(text, detections, n) ==
  BindMatch(detections, placeholderMatches(text, 0), n)

TokenNumbers(text) == 1..Len(placeholderMatches(text, 0))

\* C5: Export Reversal hits the right token.  The text that copyToClipboard
\* writes has, for every inactive detection d, d.original in place of the
\* token that the Position Resolver binds to d.
C5_ExportHitsBoundToken ==
  [][\A messageIndex \in AllIndices :
       CopyToClipboard(messageIndex)
       => LET m == Msg(messageIndex)
          IN  \E f \in Readings(m.content, m.detected_pii, lastOp'.text) :
                \A n \in TokenNumbers(m.content) :
                  LET d == BoundTo(m.content, m.detected_pii, n)
                  IN  (d # NoDetection /\ d.i \in InactiveOf(messageIndex))
                      => f[n] = d.original]_vars

\* C6: Export never un-redacts an active occurrence.  In the text that
\* copyToClipboard writes, every token that the Position Resolver binds to a
\* detection whose i is not in the inactive set is still there.
C6_ExportKeepsActive ==
  [][\A messageIndex \in AllIndices :
       CopyToClipboard(messageIndex)
       => LET m == Msg(messageIndex)
          IN  \E f \in Readings(m.content, m.detected_pii, lastOp'.text) :
                \A n \in TokenNumbers(m.content) :
                  LET d == BoundTo(m.content, m.detected_pii, n)
                  IN  (d # NoDetection /\ d.i \notin InactiveOf(messageIndex))
                      => f[n] = <<>>]_vars

\* the i of the detections of the message whose original is the given one
OccurrencesOf(m, original) ==
  {m.detected_pii[j].i : j \in {k \in 1..Len(m.detected_pii) :
                                  m.detected_pii[k].original = original}}

\* C7: toggleEntity.  After handleToggleEntity(original, false) the inactive
\* set of the message holds the i of every detection with that original, and
\* after handleToggleEntity(original, true) it holds none of them.
C7_ToggleEntity ==
  [][\A messageIndex \in AllIndices : \A k \in 1..MaxDetections :
       \A makeActive \in BOOLEAN :
         HandleToggleEntity(messageIndex, k, makeActive)
         => LET m == Msg(messageIndex)
                hit == OccurrencesOf(m, m.detected_pii[k].original)
                after == MapGet(inactiveOccurrences', messageIndex)
            IN  IF makeActive THEN hit \cap after = {}
                ELSE hit \subseteq after]_vars

\* C8: every message starts with all occurrences active.  The messages that
\* handleSubmit creates have an empty inactive occurrence set.
C8_NewMessageAllActive ==
  [][\A sc \in Scenarios :
       HandleSubmit(sc)
       => \A messageIndex \in Len(messages)..(Len(messages') - 1) :
            MapGet(inactiveOccurrences', messageIndex) = {}]_vars

\* C9: unresolved occurrences are inert.  A click on a token to which the
\* Position Resolver binds no detection changes no inactive set, and the
\* detection array stays as it is.
C9_UnresolvedInert ==
  [][\A messageIndex \in AllIndices : \A n \in 1..MaxDetections :
       (/\ ClickToken(messageIndex, n)
        /\ BoundTo(Msg(messageIndex).content, Msg(messageIndex).detected_pii, n)
             = NoDetection)
       => (/\ inactiveOccurrences' = inactiveOccurrences
           /\ SameMessage(messageIndex))]_vars

\* the array indices of the detections whose replacement is the placeholder
WithReplacement(detections, placeholder) ==
  {a \in 1..Len(detections) : detections[a].replacement = placeholder}

\* C10: Position Resolver binding.  In every message, the k-th token of the
\* text that equals placeholder P is bound to the k-th detection in array
\* order whose replacement is P, whatever other detections lie between, and
\* to none when there are fewer than k such detections.
C10_PositionResolverBinding ==
  \A j \in 1..Len(messages) :
    LET text == messages[j].content
        detections == messages[j].detected_pii
        matches == placeholderMatches(text, 0)
        map == positionToDetection(text, detections)
    IN  \A n \in 1..Len(matches) :
          LET withP == WithReplacement(detections, matches[n].text)
              ordinal == Cardinality({t \in 1..n : matches[t].text = matches[n].text})
          IN  IF ordinal <= Cardinality(withP)
              THEN /\ matches[n].index \in DOMAIN map
                   /\ \E a \in withP :
                        /\ Cardinality({b \in withP : b < a}) = ordinal - 1
                        /\ map[matches[n].index] = detections[a]
              ELSE matches[n].index \notin DOMAIN map

\* C10 witness: the detections of a placeholder lie around a detection of
\* another one in the array, and the user has just clicked the second token
\* of that placeholder, which deactivated the later of the two detections
C10_Witness ==
  /\ lastOp.op = "clickToken"
  /\ lastOp.messageIndex \in MessageIndices
  /\ LET m == Msg(lastOp.messageIndex)
         d == m.detected_pii
         matches == placeholderMatches(m.content, 0)
     IN  /\ Len(d) >= 3
         /\ d[1].replacement = lastOp.text
         /\ d[2].replacement # lastOp.text
         /\ d[3].replacement = lastOp.text
         /\ lastOp.k \in 1..Len(matches)
         /\ matches[lastOp.k].text = lastOp.text
         /\ \E t \in 1..(lastOp.k - 1) : matches[t].text = lastOp.text
         /\ InactiveOf(lastOp.messageIndex) = {d[3].i}

\* the offset of the token the Position Resolver binds to the detection at
\* array index a (1-based), -1 when it binds none to it
OffsetOf(text, detections, a) ==
  LET matches == placeholderMatches(text, 0)
      hits == {n \in 1..Len(matches) :
                 /\ matches[n].text = detections[a].replacement
                 /\ countBefore(matches, n) =
                      Cardinality({b \in WithReplacement(detections,
                                      detections[a].replacement) : b < a})}
  IN  IF hits = {} THEN -1 ELSE matches[CHOOSE n \in hits : TRUE].index

\* array order is the left-to-right order of the occurrences: every
\* detection has its token and the tokens' offsets grow with the array index
TextualOrder(text, detections) ==
  /\ \A a \in 1..Len(detections) : OffsetOf(text, detections, a) # -1
  /\ \A a, b \in 1..Len(detections) :
       a < b => OffsetOf(text, detections, a) < OffsetOf(text, detections, b)

\* C11: Manual Tagging keeps the detection array in textual order.  When the
\* array is in the left-to-right order of its occurrences and Manual Tagging
\* of a text that occurs inserts a new detection, the new array is again in
\* the left-to-right order of its occurrences in the new text, and the
\* detections in front of the new one keep their i.
C11_ManualTaggingTextualOrder ==
  [][\A messageIndex \in AllIndices : \A text \in Selections :
       \A entityType \in EntityTypes :
         (/\ HandleReplace(messageIndex, text, entityType)
          /\ IndexOf(Msg(messageIndex).content, text, 0) # -1
          /\ existingIndex(Msg(messageIndex).detected_pii, text,
                           getPlaceholderType(entityType)) = -1
          /\ TextualOrder(Msg(messageIndex).content, Msg(messageIndex).detected_pii))
         => LET after == messages'[messageIndex + 1]
                before == Msg(messageIndex).detected_pii
            IN  /\ TextualOrder(after.content, after.detected_pii)
                /\ \A a \in 1..Len(before) :
                     after.detected_pii[a].original = before[a].original
                     => after.detected_pii[a].i = before[a].i]_vars

\* the number of non-overlapping case-insensitive occurrences of p in s,
\* scanning from offset k
RECURSIVE CountCI(_, _, _)
CountCI(s, p, k) ==
  IF k >= Len(s) THEN 0
  ELSE IF MatchAtCI(s, p, k) THEN 1 + CountCI(s, p, k + Len(p))
       ELSE CountCI(s, p, k + 1)

\* the array indices of the detections whose original is the text
WithOriginal(detections, text) ==
  {a \in 1..Len(detections) : detections[a].original = text}

\* C12: Replace-All of a text that occurs n times.  When the array is in
\* textual order and holds no detection of the text, Replace-All of a text
\* with n >= 1 occurrences puts one placeholder at all n places and adds n
\* detections of the text with that placeholder, and the new array, old
\* detections included, is in the left-to-right order of its occurrences with
\* i growing along it.
C12_ReplaceAllNOccurrences ==
  [][\A messageIndex \in AllIndices : \A text \in Selections :
       \A entityType \in EntityTypes :
         (/\ HandleReplaceAll(messageIndex, text, entityType)
          /\ OccursCI(Msg(messageIndex).content, text)
          /\ WithOriginal(Msg(messageIndex).detected_pii, text) = {}
          /\ TextualOrder(Msg(messageIndex).content, Msg(messageIndex).detected_pii))
         => LET before == Msg(messageIndex)
                after == messages'[messageIndex + 1]
                n == CountCI(before.content, text, 0)
                new == WithOriginal(after.detected_pii, text)
            IN  /\ Len(after.detected_pii) = Len(before.detected_pii) + n
                /\ Cardinality(new) = n
                /\ \E a \in new :
                     LET P == after.detected_pii[a].replacement
                     IN  /\ \A b \in new : after.detected_pii[b].replacement = P
                         /\ after.content = ReplaceAllCI(before.content, text, P)
                /\ TextualOrder(after.content, after.detected_pii)
                /\ \A a \in 1..Len(after.detected_pii) :
                     after.detected_pii[a].i = a - 1]_vars

\* the placeholder strings that occur as tokens of the text
TokenTexts(text) ==
  LET matches == placeholderMatches(text, 0)
  IN  {matches[n].text : n \in 1..Len(matches)}

\* C13: Manual Tagging is idempotent on retagging.  A Manual Tagging that
\* follows a Manual Tagging of the same message with the same text and entity
\* type, the text still occurring, puts the placeholder of the first tagging
\* in place of the text, leaves the detection array as it is and brings no
\* new placeholder string into the text.
C13_ManualTaggingIdempotent ==
  [][\A messageIndex \in AllIndices : \A text \in Selections :
       \A entityType \in EntityTypes :
         (/\ lastOp = Op("handleReplace", messageIndex, text, entityType, 0, FALSE)
          /\ HandleReplace(messageIndex, text, entityType)
          /\ IndexOf(Msg(messageIndex).content, text, 0) # -1)
         => LET before == Msg(messageIndex)
                after == messages'[messageIndex + 1]
            IN  /\ after.detected_pii = before.detected_pii
                /\ TokenTexts(after.content) = TokenTexts(before.content)
                /\ \E a \in WithOriginal(before.detected_pii, text) :
                     /\ before.detected_pii[a].type = entityType
                     /\ after.content = ReplaceFirst(before.content, text,
                                          before.detected_pii[a].replacement)]_vars

\* C13 witness: after tagging the same text twice the message has two tokens
\* of the placeholder and the one manual detection of the text
C13_Witness ==
  /\ lastOp.op = "handleReplace"
  /\ lastOp.messageIndex \in MessageIndices
  /\ LET m == Msg(lastOp.messageIndex)
         matches == placeholderMatches(m.content, 0)
     IN  /\ Len(m.detected_pii) = 1
         /\ m.detected_pii[1].original = lastOp.text
         /\ m.detected_pii[1].type = lastOp.entityType
         /\ m.detected_pii[1].confidence = 100
         /\ Len(matches) = 2
         /\ \A n \in 1..2 : matches[n].text = m.detected_pii[1].replacement

\* the i of the detections whose confidence * 100 is below the threshold
BelowThreshold(detections, value) ==
  {detections[k].i : k \in {j \in 1..Len(detections) :
                              detections[j].confidence < value}}

C16_DerivedCounts ==
  \A messageIndex \in MessageIndices :
    HasResultDisplay(messageIndex)
    => LET detections == Msg(messageIndex).detected_pii
           inactive == InactiveOf(messageIndex)
           shown == countOccurrences(detections, inactive)
           exported == exportCounts(detections, inactive)
       IN  /\ shown.inactive = Cardinality(inactive)
           /\ shown.active = Len(detections) - Cardinality(inactive)
           /\ exported.inactive = Cardinality(inactive)
           /\ exported.active = Len(detections) - Cardinality(inactive)

\* the token numbers that the Position Resolver binds to the detection with
\* occurrence index k
TokensOf(text, detections, k) ==
  {n \in TokenNumbers(text) :
     /\ BoundTo(text, detections, n) # NoDetection
     /\ BoundTo(text, detections, n).i = k}

\* what each token of the text displays, by token number
ShownTokens(text, detections, inactive) ==
  LET matches == placeholderMatches(text, 0)
  IN  [n \in 1..Len(matches) |->
         tokenShown(text, detections, inactive, matches[n])]

\* C15: deactivating occurrence k changes the rendering of exactly one token.
\* When a detection that has its token in the text is deactivated from the
\* detection list, the rendered text afterwards is the rendered text before
\* with that one token showing the detection's original: no other token
\* changes what it displays.
C15_DeactivateOneToken ==
  [][\A messageIndex \in AllIndices : \A k \in 0..MaxDetections :
       (/\ lastOp'.op = "clickDetectionItem"
        /\ ClickDetectionItem(messageIndex, k)
        /\ Interactive(messageIndex)
        /\ Msg(messageIndex).detected_pii[k + 1].i \notin InactiveOf(messageIndex)
        /\ TokensOf(Msg(messageIndex).content, Msg(messageIndex).detected_pii,
                    Msg(messageIndex).detected_pii[k + 1].i) # {})
       => LET m == Msg(messageIndex)
              d == m.detected_pii[k + 1]
              before == ShownTokens(m.content, m.detected_pii, InactiveOf(messageIndex))
              after == ShownTokens(m.content, m.detected_pii,
                                   MapGet(inactiveOccurrences', messageIndex))
              changed == {n \in DOMAIN before : before[n] # after[n]}
          IN  /\ changed = TokensOf(m.content, m.detected_pii, d.i)
              /\ Cardinality(changed) = 1
              /\ \A n \in changed : after[n] = d.original
              /\ processedContent(m.content, m.detected_pii,
                                  MapGet(inactiveOccurrences', messageIndex))
                   = substituteFrom(m.content, placeholderMatches(m.content, 0),
                                    after, 1, 0)]_vars

\* the positions in the message list of the message the stream writes to
StreamMessage == {j \in 1..Len(messages) : messages[j].id = stream.id}

\* C17: cancellation keeps state and clears the processing flag.  When a
\* stream that has delivered chunks stops without complete or error event,
\* by an exception of the transport or by the end of the chunk sequence, its
\* message keeps the content of the last chunk and is no longer processing.
C17_CancellationClearsProcessing ==
  [][((StreamThrows \/ StreamEnds) /\ stream.chunks > 0)
     => \A j \in StreamMessage :
          /\ messages'[j].content = messages[j].content
          /\ ~messages'[j].isProcessing]_vars

\* C18: StreamError is terminal and recorded.  An error event leaves the
\* stream's message with the error text as content and not processing, the
\* hook with that text as error and not processing, and the stream closed: no
\* chunk of it can follow, and no new stream or submission is started.
C18_StreamErrorTerminal ==
  [][OnChunkError
     => /\ \A j \in StreamMessage :
             /\ messages'[j].content = ErrorPrefix \o ErrorMessage
             /\ ~messages'[j].isProcessing
        /\ error' = ErrorMessage
        /\ ~isProcessing'
        /\ ~stream'.open
        /\ submits' = submits
        /\ Len(messages') = Len(messages)]_vars

\* C18 witness: an error event has ended the stream of the latest
\* submission, and its message shows the error
C18_Witness ==
  /\ lastOp.op = "error"
  /\ ~stream.open
  /\ error = ErrorMessage
  /\ \E j \in 1..Len(messages) :
       /\ messages[j].type = "assistant"
       /\ messages[j].content = ErrorPrefix \o ErrorMessage
       /\ ~messages[j].isProcessing
       /\ messages[j].id = 2 * submits

\* a chunk of the stream in flight is applied in this step
ChunkApplied ==
  \/ \E content \in ContentChunks : OnChunkContent(content)
  \/ OnChunkThinking
  \/ OnChunkStatus
  \/ \E sc \in Scenarios : OnChunkComplete(sc)

\* C19: mutations of one message are serialized.  A streaming chunk that
\* follows a Manual Tagging or Replace-All of the stream's message is applied
\* to the state the tagging left: the placeholder that the tagging put into
\* the text is still in the text after the chunk.
C19_MutationsSerialized ==
  [][(/\ lastOp.op \in {"handleReplace", "handleReplaceAll"}
      /\ lastOp.messageIndex + 1 \in StreamMessage
      /\ ChunkApplied)
     => LET m == Msg(lastOp.messageIndex)
        IN  \A a \in WithOriginal(m.detected_pii, lastOp.text) :
              IndexOf(m.content, m.detected_pii[a].replacement, 0) # -1
              => IndexOf(messages'[lastOp.messageIndex + 1].content,
                         m.detected_pii[a].replacement, 0) # -1]_vars

\* C20: the Streaming Reconstructor runs only for a complete event with
\* detections and without final text.  streamingContent is the concatenation
\* of the content chunks in arrival order; a complete event with
\* anonymized_text stores exactly that text, and one with neither text nor
\* detections stores streamingContent.
C20_ReconstructorOnlyWithoutText ==
  [][/\ \A content \in ContentChunks :
          OnChunkContent(content)
          => stream'.streamingContent = stream.streamingContent \o content
     /\ (OnChunkThinking \/ OnChunkStatus)
          => stream'.streamingContent = stream.streamingContent
     /\ \A sc \in Scenarios :
          OnChunkComplete(sc)
          => \A j \in StreamMessage :
               /\ Len(sc.anonymized_text) > 0
                    => messages'[j].content = sc.anonymized_text
               /\ (Len(sc.anonymized_text) = 0 /\ Len(sc.detected_pii) = 0)
                    => messages'[j].content = stream.streamingContent]_vars

\* C20 witness: a complete event without text and without detections has
\* stored the two content chunks that arrived, in their order
C20_Witness ==
  /\ lastOp.op = "complete"
  /\ \E j \in 1..Len(messages) :
       /\ messages[j].id = 2 * submits
       /\ ~messages[j].isProcessing
       /\ ~messages[j].hasReasoning
       /\ messages[j].content = Tab \o Sp \o Tx

\* C21: toggleAllOccurrencesOfPlaceholder.  After
\* handleToggleAllOccurrences(P, makeActive) the i of every detection with
\* replacement P is in the message's inactive set exactly when makeActive is
\* false, the membership of every other index is as before, and the inactive
\* sets of the other messages are as before.
C21_ToggleAllOccurrences ==
  [][\A messageIndex \in AllIndices : \A n \in 1..MaxDetections :
       \A makeActive \in BOOLEAN :
         (/\ lastOp'.op = "handleToggleAllOccurrences"
          /\ HandleToggleAllOccurrences(messageIndex, n, makeActive))
         => LET detections == Msg(messageIndex).detected_pii
                P == MatchesOf(messageIndex)[n].text
                hit == {detections[a].i : a \in WithReplacement(detections, P)}
                before == InactiveOf(messageIndex)
                after == MapGet(inactiveOccurrences', messageIndex)
            IN  /\ \A k \in hit : (k \in after) = ~makeActive
                /\ after \ hit = before \ hit
                /\ \A other \in AllIndices \ {messageIndex} :
                     MapGet(inactiveOccurrences', other)
                       = MapGet(inactiveOccurrences, other)]_vars

\* C21 witness: the placeholder has two detections and the message one of
\* another placeholder that was inactive already; all occurrences of the
\* placeholder have just been deactivated and the inactive set holds the three
C21_Witness ==
  /\ lastOp.op = "handleToggleAllOccurrences"
  /\ ~lastOp.makeActive
  /\ lastOp.messageIndex \in MessageIndices
  /\ LET detections == Msg(lastOp.messageIndex).detected_pii
         withP == WithReplacement(detections, lastOp.text)
     IN  /\ Cardinality(withP) = 2
         /\ Len(detections) = 3
         /\ InactiveOf(lastOp.messageIndex)
              = {detections[a].i : a \in 1..3}

\* C22: Toggle idempotence.  When a click on a detection item deactivates an
\* occurrence k that was active, k is inactive afterwards, and
\* toggleOccurrence(k, true), which the next click on the item runs, gives
\* back the whole message-to-inactive-set map of before the first click.
C22_ToggleIdempotence ==
  [][\A messageIndex \in AllIndices : \A k \in 0..MaxDetections :
       (/\ lastOp'.op = "clickDetectionItem"
        /\ ~lastOp'.makeActive
        /\ ClickDetectionItem(messageIndex, k))
       => LET occurrenceIndex == Msg(messageIndex).detected_pii[k + 1].i
          IN  /\ occurrenceIndex \in MapGet(inactiveOccurrences', messageIndex)
              /\ toggleOccurrence(inactiveOccurrences', messageIndex,
                                  occurrenceIndex, TRUE) = inactiveOccurrences]_vars

\* C22 witness: a click has just reactivated an occurrence of a message that
\* has no inactive occurrence left and no key in the map, while another
\* message keeps its inactive set
C22_Witness ==
  /\ lastOp.op = "clickDetectionItem"
  /\ lastOp.makeActive
  /\ lastOp.messageIndex \in MessageIndices
  /\ lastOp.messageIndex \notin DOMAIN inactiveOccurrences
  /\ DOMAIN inactiveOccurrences # {}

\* the numbers n for which the token [P_n] stands in the text
UsedNumbers(text, placeholderType) ==
  {n \in 1..(MaxDetections + 2) :
     IndexOf(text, PlaceholderPrefix(placeholderType) \o NumToString(n)
                     \o <<"]">>, 0) # -1}

\* the smallest positive integer that is not in the set
SmallestUnused(used) ==
  CHOOSE n \in 1..(MaxDetections + 3) :
    n \notin used /\ \A m \in 1..(n - 1) : m \in used

\* the detections of the message have no original S with a replacement of
\* prefix [P_
NoneTagged(messageIndex, text, entityType) ==
  LET detections == Msg(messageIndex).detected_pii
  IN  \A k \in 1..Len(detections) :
        ~(/\ detections[k].original = text
          /\ StartsWith(detections[k].replacement,
                        PlaceholderPrefix(getPlaceholderType(entityType))))

\* the message's detections of S with a replacement of prefix [P_ all hold
\* the placeholder [P_n] of the smallest n without a token [P_n] in the text
\* of before, there is one, and the token stands in the new text
AllocatedSmallest(messageIndex, text, entityType) ==
  LET P == getPlaceholderType(entityType)
      expected == PlaceholderPrefix(P)
                    \o NumToString(SmallestUnused(
                         UsedNumbers(Msg(messageIndex).content, P)))
                    \o <<"]">>
      after == messages'[messageIndex + 1]
      tagged == {k \in 1..Len(after.detected_pii) :
                   /\ after.detected_pii[k].original = text
                   /\ StartsWith(after.detected_pii[k].replacement,
                                 PlaceholderPrefix(P))}
  IN  /\ tagged # {}
      /\ \A k \in tagged : after.detected_pii[k].replacement = expected
      /\ IndexOf(after.content, expected, 0) # -1

\* C23: Placeholder allocation.  When no detection of the message has
\* original S with a replacement of prefix [P_ and S occurs in the text,
\* Manual Tagging and Replace-All give S the placeholder [P_n] with n the
\* smallest positive integer for which the text holds no token [P_n].
C23_PlaceholderAllocation ==
  [][\A messageIndex \in AllIndices : \A text \in TaggingSelections :
       \A entityType \in EntityTypes :
         /\ (/\ lastOp' = Op("handleReplace", messageIndex, text, entityType,
                             0, FALSE)
             /\ HandleReplace(messageIndex, text, entityType)
             /\ NoneTagged(messageIndex, text, entityType)
             /\ IndexOf(Msg(messageIndex).content, text, 0) # -1)
            => AllocatedSmallest(messageIndex, text, entityType)
         /\ (/\ lastOp' = Op("handleReplaceAll", messageIndex, text,
                             entityType, 0, FALSE)
             /\ HandleReplaceAll(messageIndex, text, entityType)
             /\ NoneTagged(messageIndex, text, entityType)
             /\ OccursCI(Msg(messageIndex).content, text))
            => AllocatedSmallest(messageIndex, text, entityType)]_vars

\* C23 witness: the text held the token [ID_2] and none with 1, and the
\* tagging of another text as id has just given it [ID_1]
C23_Witness ==
  /\ lastOp.op \in {"handleReplace", "handleReplaceAll"}
  /\ lastOp.entityType = "id"
  /\ lastOp.messageIndex \in MessageIndices
  /\ LET m == Msg(lastOp.messageIndex)
     IN  /\ IndexOf(m.content, TID2, 0) # -1
         /\ \E k \in 1..Len(m.detected_pii) :
              /\ m.detected_pii[k].original = lastOp.text
              /\ m.detected_pii[k].replacement = TID1
         /\ \E k \in 1..Len(m.detected_pii) :
              /\ m.detected_pii[k].original # lastOp.text
              /\ m.detected_pii[k].replacement = TID2

\* C24: Rendering identity.  For the text and the detection array of every
\* message, the spans processedContent builds with an empty inactive set
\* display, one after the other, exactly the text.
C24_RenderingIdentity ==
  \A j \in 1..Len(messages) :
    processedContent(messages[j].content, messages[j].detected_pii, {})
      = messages[j].content

\* C24 witness: a message with two tokens and a text between them, each
\* token bound to a detection, and no inactive occurrence: what is on the
\* page is the rendering with the empty set
C24_Witness ==
  \E messageIndex \in MessageIndices :
    LET m == Msg(messageIndex)
        matches == MatchesOf(messageIndex)
    IN  /\ Interactive(messageIndex)
        /\ InactiveOf(messageIndex) = {}
        /\ Len(matches) >= 2
        /\ matches[2].index > matches[1].index + Len(matches[1].text)
        /\ \A n \in 1..Len(matches) :
             tokenDetection(m.content, m.detected_pii, matches[n]) # NoDetection

\* two detection records are the same detection, whatever their i
SameDetection(a, b) ==
  /\ a.type = b.type
  /\ a.original = b.original
  /\ a.replacement = b.replacement
  /\ a.confidence = b.confidence

\* after is before with one detection inserted at array position pos
\* (1-based)
InsertedAt(before, after, pos) ==
  /\ Len(after) = Len(before) + 1
  /\ pos \in 1..Len(after)
  /\ \A a \in 1..Len(before) :
       SameDetection(before[a], after[IF a < pos THEN a ELSE a + 1])

\* C25: Activation state follows the detection across insertions.  When
\* Manual Tagging or Replace-All of a text of the message inserts one
\* detection and renumbers the later ones, every detection is inactive afterwards exactly when it was
\* inactive before, and the inserted detection is active.
C25_ActivationFollowsDetection ==
  [][\A messageIndex \in AllIndices : \A text \in Selections :
       \A entityType \in EntityTypes :
         (/\ lastOp'.op \in {"handleReplace", "handleReplaceAll"}
          /\ \/ HandleReplace(messageIndex, text, entityType)
             \/ HandleReplaceAll(messageIndex, text, entityType)
          /\ IndexOf(Msg(messageIndex).content, text, 0) # -1
          /\ Len(messages'[messageIndex + 1].detected_pii)
               = Len(Msg(messageIndex).detected_pii) + 1)
         => LET before == Msg(messageIndex).detected_pii
                after == messages'[messageIndex + 1].detected_pii
                inactiveBefore == InactiveOf(messageIndex)
                inactiveAfter == MapGet(inactiveOccurrences', messageIndex)
            IN  \E pos \in 1..Len(after) :
                  /\ InsertedAt(before, after, pos)
                  /\ after[pos].i \notin inactiveAfter
                  /\ \A a \in 1..Len(before) :
                       (before[a].i \in inactiveBefore)
                         = (after[IF a < pos THEN a ELSE a + 1].i
                              \in inactiveAfter)]_vars

\* for every placeholder string the text has as many tokens of it as the
\* detection array has detections with that replacement
Resolved(text, detections) ==
  LET matches == placeholderMatches(text, 0)
      placeholders == {matches[n].text : n \in 1..Len(matches)}
                        \cup {detections[k].replacement : k \in 1..Len(detections)}
  IN  \A P \in placeholders :
        Cardinality({n \in 1..Len(matches) : matches[n].text = P})
          = Cardinality(WithReplacement(detections, P))

\* C26: Tagging never creates an unresolved occurrence.  When every
\* placeholder has as many tokens in the text as detections, the same holds
\* after Manual Tagging or Replace-All of a text of the message, so it holds
\* after every sequence of them.
C26_TaggingKeepsResolved ==
  [][\A messageIndex \in AllIndices : \A text \in Selections :
       \A entityType \in EntityTypes :
         (/\ lastOp'.op \in {"handleReplace", "handleReplaceAll"}
          /\ \/ HandleReplace(messageIndex, text, entityType)
             \/ HandleReplaceAll(messageIndex, text, entityType)
          /\ IndexOf(Msg(messageIndex).content, text, 0) # -1
          /\ Resolved(Msg(messageIndex).content,
                      Msg(messageIndex).detected_pii))
         => Resolved(messages'[messageIndex + 1].content,
                     messages'[messageIndex + 1].detected_pii)]_vars

\* C27: Every stream terminates the processing state.  Whichever way the
\* chunk sequence of a started stream ends (complete event, error event,
\* thrown exception, end without terminal event), once it has ended the
\* hook's isProcessing eventually is false.
C27_StreamEndClearsProcessing ==
  (~stream.open) ~> (~isProcessing)

\* C28: A user edit is never lost to the stream.  After a content,
\* thinking, status or complete chunk that follows a Manual Tagging or
\* Replace-All which put its placeholder into the text of the stream's
\* message, the message still has every detection
\* the tagging left in its array, and its text still has the placeholder of
\* every detection of the tagged text that it had.
C28_EditNotLostToStream ==
  [][(/\ lastOp.op \in {"handleReplace", "handleReplaceAll"}
      /\ lastOp.messageIndex + 1 \in StreamMessage
      /\ \E a \in WithOriginal(Msg(lastOp.messageIndex).detected_pii,
                               lastOp.text) :
           IndexOf(Msg(lastOp.messageIndex).content,
                   Msg(lastOp.messageIndex).detected_pii[a].replacement, 0)
             # -1
      /\ ChunkApplied)
     => LET m == Msg(lastOp.messageIndex)
            after == messages'[lastOp.messageIndex + 1]
        IN  /\ \A a \in 1..Len(m.detected_pii) :
                 \E b \in 1..Len(after.detected_pii) :
                   SameDetection(m.detected_pii[a], after.detected_pii[b])
            /\ \A a \in WithOriginal(m.detected_pii, lastOp.text) :
                 IndexOf(m.content, m.detected_pii[a].replacement, 0) # -1
                 => IndexOf(after.content, m.detected_pii[a].replacement, 0)
                      # -1]_vars

\* the placeholder tokens of the text, in the order of the text
TokenSequence(text) ==
  LET matches == placeholderMatches(text, 0)
  IN  [n \in 1..Len(matches) |-> matches[n].text]

\* the elements of a occur in b in the same relative order
RECURSIVE IsSubsequence(_, _)
IsSubsequence(a, b) ==
  IF Len(a) = 0 THEN TRUE
  ELSE IF Len(b) = 0 THEN FALSE
  ELSE IF Head(a) = Head(b) THEN IsSubsequence(Tail(a), Tail(b))
  ELSE IsSubsequence(a, Tail(b))

\* C29: Tagging never corrupts an existing placeholder.  For every selected
\* text, a placeholder name in lower case among them, the placeholder tokens
\* the text had before Manual Tagging or Replace-All are tokens of the text
\* after it, character for character and in the same relative order.
C29_TaggingKeepsPlaceholders ==
  [][\A messageIndex \in AllIndices : \A text \in TaggingSelections :
       \A entityType \in EntityTypes :
         (/\ lastOp'.op \in {"handleReplace", "handleReplaceAll"}
          /\ \/ HandleReplace(messageIndex, text, entityType)
             \/ HandleReplaceAll(messageIndex, text, entityType))
         => IsSubsequence(TokenSequence(Msg(messageIndex).content),
                          TokenSequence(messages'[messageIndex + 1].content))]_vars

\* the occurrence indices of the detections of the text with a replacement
\* of prefix [P_ in the message after the step: with none before the step,
\* the occurrences the tagging created
CreatedBy(messageIndex, text, entityType) ==
  LET after == messages'[messageIndex + 1].detected_pii
  IN  {after[k].i : k \in {a \in 1..Len(after) :
         /\ after[a].original = text
         /\ StartsWith(after[a].replacement,
                       PlaceholderPrefix(getPlaceholderType(entityType)))}}

\* C30: Tag-then-deactivate restores the source text.  When Manual Tagging or
\* Replace-All tags a text that had no detection of this type, in a message
\* without inactive occurrence, the text rendered with all the occurrences it
\* created inactive is the text of before the tagging, character for
\* character.
C30_TagThenDeactivateRestores ==
  [][\A messageIndex \in AllIndices : \A text \in TaggingSelections :
       \A entityType \in EntityTypes :
         (/\ lastOp'.op \in {"handleReplace", "handleReplaceAll"}
          /\ \/ HandleReplace(messageIndex, text, entityType)
             \/ HandleReplaceAll(messageIndex, text, entityType)
          /\ NoneTagged(messageIndex, text, entityType)
          /\ InactiveOf(messageIndex) = {})
         => processedContent(messages'[messageIndex + 1].content,
                             messages'[messageIndex + 1].detected_pii,
                             CreatedBy(messageIndex, text, entityType))
              = Msg(messageIndex).content]_vars

====
